---- MODULE Spec2Model ----
(***************************************************************************)
(* A model of the PDF knowledge graph generator (src/app.py): the          *)
(* KnowledgeGraphGenerator class (text normaliser, entity / keyword /      *)
(* relationship extractors, graph builder, render sanitiser) and the       *)
(* Streamlit pages that drive it through the session state.                *)
(*                                                                         *)
(* A text is a sequence of one-character strings.  The libraries the code  *)
(* calls (re, str, networkx.Graph, collections.Counter) are modelled by    *)
(* what the called functions do.                                           *)
(***************************************************************************)
EXTENDS Integers, Sequences, FiniteSets, TLC

VARIABLES
    text,           \* kg.text
    entities,       \* kg.entities
    keywords,       \* kg.keywords
    relationships,  \* kg.relationships
    graph,          \* kg.graph (networkx.Graph)
    graph_ready,    \* st.session_state.graph_ready
    doc,            \* what kg.nlp(kg.text) returns for the current text
    op,             \* the operation that ran last
    ret,            \* what it returned
    nlp_used,       \* whether it called kg.nlp
    raised,         \* whether it raised
    held            \* history: what the graph held when build_graph last began

vars == <<text, entities, keywords, relationships, graph, graph_ready,
          doc, op, ret, nlp_used, raised, held>>

(***************************************************************************)
(* Bounds of the checked instances.                                        *)
(***************************************************************************)
MaxLen == 4        \* longest raw text of SpecNorm

MaxTokens == 4     \* longest dependency parse of SpecRel

MaxEnts == 3       \* longest entity sequence of SpecBuild

MaxRels == 2       \* longest triple sequence of SpecBuild

MaxRenderEnts == 2 \* longest entity sequence of SpecRender

MaxRenderRels == 1 \* longest triple sequence of SpecRender

(***************************************************************************)
(* Characters.  Python's \s and str.split() share one notion of            *)
(* whitespace (str.isspace), \w is alphanumerics plus the underscore.      *)
(***************************************************************************)
Spaces == {" ", "\t", "\n"}

Uppers == {"A", "B", "C", "D"}

Lowers == {"a", "b", "c", "d", "e", "h", "i", "k", "l", "m", "n", "o", "r",
           "s", "t", "u", "w"}

Digits == {"0", "1", "2", "3", "4", "5", "6", "7", "8", "9"}

Alnums == Uppers \cup Lowers \cup Digits

WordChars == Alnums \cup {"_"}

\* the six marks the second re.sub keeps
KeptPunct == {".", ",", "!", "?", ";", ":"}

\* Python's None, where a text or an identifier is expected
NoneVal == <<"None">>

(***************************************************************************)
(* preprocess_text, line by line.                                          *)
(***************************************************************************)
RECURSIVE lstrip(_)
lstrip(s) ==
    IF s # <<>> /\ Head(s) \in Spaces THEN lstrip(Tail(s)) ELSE s

\* re.sub(r"\s+", " ", s): every maximal run of whitespace becomes one space
RECURSIVE sub_whitespace(_)
sub_whitespace(s) ==
    IF s = <<>> THEN <<>>
    ELSE IF Head(s) \in Spaces THEN <<" ">> \o sub_whitespace(lstrip(s))
    ELSE <<Head(s)>> \o sub_whitespace(Tail(s))

\* re.sub(r"[^\w\s\.\,\!\?\;\:]", "", s)
sub_other(s) ==
    SelectSeq(s, LAMBDA c : c \in WordChars \cup Spaces \cup KeptPunct)

\* the first word of s (s does not start with whitespace)
RECURSIVE first_word(_)
first_word(s) ==
    IF s = <<>> \/ Head(s) \in Spaces THEN <<>>
    ELSE <<Head(s)>> \o first_word(Tail(s))

\* str.split(): the maximal runs of non-whitespace
RECURSIVE split(_)
split(s) ==
    LET t == lstrip(s)
        w == first_word(t)
    IN  IF t = <<>> THEN <<>>
        ELSE <<w>> \o split(SubSeq(t, Len(w) + 1, Len(t)))

\* " ".join(words)
RECURSIVE join(_)
join(words) ==
    IF words = <<>> THEN <<>>
    ELSE IF Len(words) = 1 THEN words[1]
    ELSE words[1] \o <<" ">> \o join(Tail(words))

NormalizeNoFinalSplit(s) == sub_other(sub_whitespace(s))

Normalize(s) == join(split(sub_other(sub_whitespace(s))))

(***************************************************************************)
(* networkx.Graph: the nodes in insertion order, each node's attribute     *)
(* dict, each node's neighbours in insertion order (the adjacency dict)    *)
(* and one attribute dict per edge, shared by both directions.  A dict is  *)
(* a function from its keys (strings) to its values.                       *)
(***************************************************************************)
EmptyDict == [k \in {} |-> k]

\* dict.update(new): new's items overwrite
dict_update(old, new) == new @@ old

\* dict.get(key, default)
dict_get(d, key, default) == IF key \in DOMAIN d THEN d[key] ELSE default

Range(s) == {s[i] : i \in DOMAIN s}

\* nx.Graph()
EmptyGraph == [nodes |-> <<>>, attr |-> EmptyDict, adj |-> EmptyDict,
               edge |-> EmptyDict]

has_node(G, n) == n \in Range(G.nodes)

\* a variant: the attributes of an existing node are left as they are
add_node_keep_first(G, n, attr) ==
    IF has_node(G, n) THEN G
    ELSE [G EXCEPT !.nodes = Append(@, n),
                   !.attr = (n :> attr) @@ @,
                   !.adj = (n :> <<>>) @@ @]

\* Graph.add_node(n, **attr): an existing node's attributes are updated
add_node(G, n, attr) ==
    IF has_node(G, n)
    THEN [G EXCEPT !.attr[n] = dict_update(@, attr)]
    ELSE [G EXCEPT !.nodes = Append(@, n),
                   !.attr = (n :> attr) @@ @,
                   !.adj = (n :> <<>>) @@ @]

\* adj[u][v] = datadict: v is a new key of adj[u] only when not there yet
link(adj, u, v) ==
    IF v \in Range(adj[u]) THEN adj ELSE [adj EXCEPT ![u] = Append(@, v)]

\* a variant: the attributes of an existing edge are left as they are
add_edge_keep_first(G, u, v, attr) ==
    LET G1 == IF has_node(G, u) THEN G ELSE add_node(G, u, EmptyDict)
        G2 == IF has_node(G1, v) THEN G1 ELSE add_node(G1, v, EmptyDict)
        old == dict_get(G2.edge, {u, v}, EmptyDict)
    IN  [G2 EXCEPT !.adj = link(link(@, u, v), v, u),
                   !.edge = ({u, v} :> dict_update(attr, old)) @@ @]

\* Graph.add_edge(u, v, **attr): missing endpoints are created without
\* attributes, an existing edge's attributes are updated
add_edge(G, u, v, attr) ==
    LET G1 == IF has_node(G, u) THEN G ELSE add_node(G, u, EmptyDict)
        G2 == IF has_node(G1, v) THEN G1 ELSE add_node(G1, v, EmptyDict)
        old == dict_get(G2.edge, {u, v}, EmptyDict)
    IN  [G2 EXCEPT !.adj = link(link(@, u, v), v, u),
                   !.edge = ({u, v} :> dict_update(old, attr)) @@ @]

\* Graph.edges(): each node in order, each of its neighbours in order, an
\* edge to a node already visited left out (it was listed from there)
RECURSIVE edges_from(_, _, _)
edges_from(G, n, nbrs) ==
    IF nbrs = <<>> THEN <<>>
    ELSE LET i == CHOOSE i \in DOMAIN G.nodes : G.nodes[i] = n
             v == Head(nbrs)
             seen == {G.nodes[j] : j \in 1..(i - 1)}
         IN  (IF v \in seen THEN <<>> ELSE << <<n, v>> >>)
             \o edges_from(G, n, Tail(nbrs))

RECURSIVE edges_upto(_, _)
edges_upto(G, k) ==
    IF k = 0 THEN <<>>
    ELSE edges_upto(G, k - 1) \o edges_from(G, G.nodes[k], G.adj[G.nodes[k]])

graph_edges(G) == edges_upto(G, Len(G.nodes))

(***************************************************************************)
(* build_graph: a new graph, the entities as nodes, then the relationships *)
(* as edges.                                                               *)
(***************************************************************************)
EntityAttr(e) == [label |-> e.label, type |-> "entity", size |-> 20]

RelAttr(r) == [label |-> r.predicate, type |-> "relationship"]

RECURSIVE add_entities(_, _)
add_entities(G, ents) ==
    IF ents = <<>> THEN G
    ELSE add_entities(add_node(G, Head(ents).text, EntityAttr(Head(ents))),
                      Tail(ents))

RECURSIVE add_relationships(_, _)
add_relationships(G, rels) ==
    IF rels = <<>> THEN G
    ELSE add_relationships(
             add_edge(G, Head(rels).subject, Head(rels).object,
                      RelAttr(Head(rels))),
             Tail(rels))

BuildFrom(G, ents, rels) == add_relationships(add_entities(G, ents), rels)

(***************************************************************************)
(* Visualization helpers.                                                  *)
(***************************************************************************)
RECURSIVE rstrip(_)
rstrip(s) ==
    IF s # <<>> /\ s[Len(s)] \in Spaces THEN rstrip(SubSeq(s, 1, Len(s) - 1))
    ELSE s

\* str.strip()
strip(s) == rstrip(lstrip(s))

\* s[:n]
take(s, n) == SubSeq(s, 1, IF Len(s) < n THEN Len(s) ELSE n)

Unknown == <<"u", "n", "k", "n", "o", "w", "n">>

MaxIdLen == 60

MaxLabelLen == 30

Ellipsis == "..."

_safe_id(x) ==
    LET s == IF strip(x) = <<>> THEN Unknown ELSE strip(x)
    IN  take(s, MaxIdLen)

_safe_label(x) ==
    LET s == strip(x)
    IN  IF Len(s) <= MaxLabelLen THEN s
        ELSE take(s, MaxLabelLen - 1) \o <<Ellipsis>>

DefaultColor == "#1f77b4"

\* a variant: the table indexed without its default entry
_node_color_strict(label) ==
    CASE label = "PERSON" -> "#ff7f0e"
      [] label = "ORG" -> "#2ca02c"
      [] label = "GPE" -> "#d62728"
      [] label = "PRODUCT" -> "#9467bd"
      [] label = "EVENT" -> "#8c564b"
      [] label = "WORK_OF_ART" -> "#e377c2"
      [] OTHER -> "KeyError"

_node_color(label) ==
    CASE label = "PERSON" -> "#ff7f0e"
      [] label = "ORG" -> "#2ca02c"
      [] label = "GPE" -> "#d62728"
      [] label = "PRODUCT" -> "#9467bd"
      [] label = "EVENT" -> "#8c564b"
      [] label = "WORK_OF_ART" -> "#e377c2"
      [] OTHER -> DefaultColor

\* str(n) of a natural number
RECURSIVE decimal(_)
decimal(n) ==
    LET d == <<"0", "1", "2", "3", "4", "5", "6", "7", "8", "9">>[(n % 10) + 1]
    IN  IF n < 10 THEN <<d>> ELSE decimal(n \div 10) \o <<d>>

(***************************************************************************)
(* hash((nid, len(seen_ids))): Python salts the hash of a string per       *)
(* process, so within one call it is some function of its argument and     *)
(* nothing more is known of it.  HashSamples are the values the model      *)
(* lets it take; the code keeps its low 16 bits.                           *)
(***************************************************************************)
HashMask == 65535

HashSamples == {7, 65543, -1}

\* h & 0xffff
low16(h) == h % (HashMask + 1)

\* f"{nid}_{hash(...) & 0xffff}"
disambiguated(nid, h) == nid \o <<"_">> \o decimal(low16(h))

\* The first loop of make_agraph_payload over the node keys: the sequences
\* of identifiers it can assign.  memo holds the hash values already drawn
\* in this call.
RECURSIVE assign_ids(_, _, _, _)
assign_ids(keys, seen, ids, memo) ==
    IF keys = <<>> THEN {ids}
    ELSE LET nid == _safe_id(Head(keys))
             arg == <<nid, Cardinality(seen)>>
             hs == IF arg \in DOMAIN memo THEN {memo[arg]} ELSE HashSamples
         IN  IF nid \notin seen
             THEN assign_ids(Tail(keys), seen \cup {nid}, Append(ids, nid),
                             memo)
             ELSE UNION { assign_ids(Tail(keys),
                                     seen \cup {disambiguated(nid, h)},
                                     Append(ids, disambiguated(nid, h)),
                                     (arg :> h) @@ memo) : h \in hs }

\* graph.nodes[n]["__safe_id__"] = nid, for every node
with_safe_ids(G, ids) ==
    [G EXCEPT !.attr = [n \in DOMAIN @ |->
        LET i == CHOOSE i \in DOMAIN G.nodes : G.nodes[i] = n
        IN  dict_update(@[n], [__safe_id__ |-> ids[i]])]]

payload_node(G, n, nid) ==
    [id |-> nid,
     label |-> _safe_label(n),
     size |-> dict_get(G.attr[n], "size", 18),
     color |-> _node_color(dict_get(G.attr[n], "label", "default"))]

payload_nodes(G, ids) ==
    [i \in DOMAIN G.nodes |-> payload_node(G, G.nodes[i], ids[i])]

\* a variant: the edge loop without its filter
RECURSIVE payload_edges_unfiltered(_, _)
payload_edges_unfiltered(G, es) ==
    IF es = <<>> THEN <<>>
    ELSE LET u == Head(es)[1]
             v == Head(es)[2]
             e == [source |-> dict_get(G.attr[u], "__safe_id__", NoneVal),
                   target |-> dict_get(G.attr[v], "__safe_id__", NoneVal),
                   label |-> _safe_label(dict_get(G.edge[{u, v}], "label",
                                                  <<>>)),
                   color |-> "#666666"]
         IN  <<e>> \o payload_edges_unfiltered(G, Tail(es))

\* the second loop: the edges that pass "if not su or not sv or su == sv:
\* continue" (None and the empty string are the falsy identifiers)
RECURSIVE payload_edges(_, _)
payload_edges(G, es) ==
    IF es = <<>> THEN <<>>
    ELSE LET u == Head(es)[1]
             v == Head(es)[2]
             su == dict_get(G.attr[u], "__safe_id__", NoneVal)
             sv == dict_get(G.attr[v], "__safe_id__", NoneVal)
             skip == su \in {NoneVal, <<>>} \/ sv \in {NoneVal, <<>>}
                     \/ su = sv
             e == [source |-> su, target |-> sv,
                   label |-> _safe_label(dict_get(G.edge[{u, v}], "label",
                                                  <<>>)),
                   color |-> "#666666"]
         IN  (IF skip THEN <<>> ELSE <<e>>) \o payload_edges(G, Tail(es))

EmptyPayload == [nodes |-> <<>>, edges |-> <<>>, cfg |-> NoneVal]

(***************************************************************************)
(* The NLP model (spaCy) is an external collaborator: the code relies on   *)
(* it being a function of the text.  nlp is a small stand-in of that kind: *)
(* it tokenizes, tags the capitalized words it knows as entities, and      *)
(* attaches a name to the verb next to it.  The claims about the extractors*)
(* themselves are checked on arbitrary analyses (SpecRel), not on this     *)
(* stand-in.                                                               *)
(***************************************************************************)
RECURSIVE word_prefix(_)
word_prefix(s) ==
    IF s = <<>> \/ Head(s) \notin WordChars THEN <<>>
    ELSE <<Head(s)>> \o word_prefix(Tail(s))

\* tokens with their character offsets: a run of word characters, or one
\* other character that is not whitespace
RECURSIVE tokenize(_, _)
tokenize(s, at) ==
    IF s = <<>> THEN <<>>
    ELSE IF Head(s) \in Spaces THEN tokenize(Tail(s), at + 1)
    ELSE LET w == IF Head(s) \in WordChars THEN word_prefix(s) ELSE <<Head(s)>>
         IN  <<[text |-> w, start |-> at, end |-> at + Len(w)]>>
             \o tokenize(SubSeq(s, Len(w) + 1, Len(s)), at + Len(w))

NlpLabel(w) ==
    IF w = <<>> \/ w[1] \notin Uppers THEN "NONE"
    ELSE CASE w[1] = "A" -> IF Len(w) = 4 /\ w[2] = "c" THEN "ORG" ELSE "PERSON"
           [] w[1] = "B" -> "PERSON"
           [] w[1] = "C" -> "PERSON"
           [] OTHER -> "DATE"

NlpIsVerb(w) == w # <<>> /\ w[1] \in Lowers

nlp(t) ==
    LET toks == tokenize(t, 0)
        n == Len(toks)
        name(i) == i \in 1..n /\ NlpLabel(toks[i].text) # "NONE"
        verb(i) == i \in 1..n /\ NlpIsVerb(toks[i].text)
        tok(i) ==
            IF verb(i)
            THEN [text |-> toks[i].text, dep |-> "ROOT", pos |-> "VERB", head |-> i]
            ELSE IF name(i) /\ verb(i + 1)
            THEN [text |-> toks[i].text, dep |-> "nsubj", pos |-> "PROPN",
                  head |-> i + 1]
            ELSE IF name(i) /\ verb(i - 1)
            THEN [text |-> toks[i].text, dep |-> "dobj", pos |-> "PROPN",
                  head |-> i - 1]
            ELSE [text |-> toks[i].text, dep |-> "dep", pos |-> "X", head |-> i]
        ent(i) == [text |-> toks[i].text, label |-> NlpLabel(toks[i].text),
                   start |-> toks[i].start, end |-> toks[i].end]
        idx == SelectSeq([i \in 1..n |-> i], LAMBDA i : name(i))
    IN  [ents |-> [k \in DOMAIN idx |-> ent(idx[k])],
         tokens |-> [i \in 1..n |-> tok(i)]]

(***************************************************************************)
(* extract_entities: the entities of the six kept categories.              *)
(***************************************************************************)
Keep == {"PERSON", "ORG", "GPE", "PRODUCT", "EVENT", "WORK_OF_ART"}

KeptEntities(d) == SelectSeq(d.ents, LAMBDA e : e.label \in Keep)

(***************************************************************************)
(* extract_relationships: for each nsubj token whose head is a verb, one   *)
(* triple per dobj / pobj child of that verb whose text differs from the   *)
(* subject's.                                                              *)
(***************************************************************************)
\* token.children: the tokens attached to token h, in document order
\* (the root is its own head and not its own child)
children(toks, h) ==
    SelectSeq([i \in DOMAIN toks |-> i],
              LAMBDA i : i # h /\ toks[i].head = h)

triple(s, v, o) ==
    [subject |-> s, predicate |-> v, object |-> o, type |-> "SVO"]

\* a variant: the test "subj != obj" left out
RECURSIVE rels_of_children_with_self(_, _, _)
rels_of_children_with_self(toks, i, cs) ==
    IF cs = <<>> THEN <<>>
    ELSE LET subj == toks[i].text
             verb == toks[toks[i].head].text
             child == toks[Head(cs)]
             obj == child.text
             hit == child.dep \in {"dobj", "pobj"}
                    /\ subj # <<>> /\ obj # <<>>
         IN  (IF hit THEN <<triple(subj, verb, obj)>> ELSE <<>>)
             \o rels_of_children_with_self(toks, i, Tail(cs))

RECURSIVE rels_of_children(_, _, _)
rels_of_children(toks, i, cs) ==
    IF cs = <<>> THEN <<>>
    ELSE LET subj == toks[i].text
             verb == toks[toks[i].head].text
             child == toks[Head(cs)]
             obj == child.text
             hit == child.dep \in {"dobj", "pobj"}
                    /\ subj # <<>> /\ obj # <<>> /\ subj # obj
         IN  (IF hit THEN <<triple(subj, verb, obj)>> ELSE <<>>)
             \o rels_of_children(toks, i, Tail(cs))

RECURSIVE rels_upto(_, _)
rels_upto(toks, k) ==
    IF k = 0 THEN <<>>
    ELSE rels_upto(toks, k - 1)
         \o (IF toks[k].dep = "nsubj" /\ toks[toks[k].head].pos = "VERB"
             THEN rels_of_children(toks, k, children(toks, toks[k].head))
             ELSE <<>>)

ExtractRels(d) == rels_upto(d.tokens, Len(d.tokens))

(***************************************************************************)
(* extract_keywords: the top_k most frequent lower-cased tokens that are   *)
(* alphanumeric, no stopword and longer than 3 characters.                 *)
(***************************************************************************)
TopK == 50

MinKeywordLen == 3

lower(c) ==
    CASE c = "A" -> "a" [] c = "B" -> "b" [] c = "C" -> "c" [] c = "D" -> "d"
      [] OTHER -> c

\* a sample of nltk's English stopword list
Stopwords == { <<"t", "h", "i", "s">>, <<"w", "i", "t", "h">>,
               <<"t", "h", "e">>, <<"a">> }

isalnum(w) == w # <<>> /\ \A i \in DOMAIN w : w[i] \in Alnums

\* nltk.word_tokenize(text.lower())
word_tokenize_lower(t) ==
    LET toks == tokenize([i \in DOMAIN t |-> lower(t[i])], 0)
    IN  [i \in DOMAIN toks |-> toks[i].text]

count(words, w) == Cardinality({i \in DOMAIN words : words[i] = w})

\* the keys of Counter(words), in insertion order
RECURSIVE distinct(_)
distinct(words) ==
    IF words = <<>> THEN <<>>
    ELSE LET r == distinct(SubSeq(words, 1, Len(words) - 1))
             w == words[Len(words)]
         IN  IF w \in Range(r) THEN r ELSE Append(r, w)

\* sorted(..., key=count, reverse=True) is stable: w goes after the words
\* that are at least as frequent
RECURSIVE insert_by_count(_, _, _)
insert_by_count(sorted, w, words) ==
    IF sorted = <<>> THEN <<w>>
    ELSE IF count(words, Head(sorted)) >= count(words, w)
    THEN <<Head(sorted)>> \o insert_by_count(Tail(sorted), w, words)
    ELSE <<w>> \o sorted

RECURSIVE sort_by_count(_, _)
sort_by_count(keys, words) ==
    IF keys = <<>> THEN <<>>
    ELSE insert_by_count(sort_by_count(SubSeq(keys, 1, Len(keys) - 1), words),
                         keys[Len(keys)], words)

\* a variant: the first k keys of the counter, not sorted by their counts
most_common_unsorted(words, k) == take(distinct(words), k)

\* Counter(words).most_common(k)
most_common(words, k) == take(sort_by_count(distinct(words), words), k)

ExtractKeywords(tokens, k) ==
    LET words == SelectSeq(tokens, LAMBDA w : isalnum(w) /\ w \notin Stopwords
                                              /\ Len(w) > MinKeywordLen)
    IN  most_common(words, k)

(***************************************************************************)
(* The uploaded PDFs: what each of the two extraction libraries gives for  *)
(* the file, a text or an exception.                                       *)
(***************************************************************************)
Failure == <<"Exception">>

\* "Anna met Bob  @"
RawAnna == <<"A", "n", "n", "a", " ", "m", "e", "t", " ", "B", "o", "b",
             " ", " ", "@">>

\* "Cid sued Acme"
RawCid == <<"C", "i", "d", " ", "s", "u", "e", "d", " ", "A", "c", "m", "e">>

\* a page of symbols only: nothing of it survives preprocess_text
RawSymbols == <<"@", " ", "@">>

Files ==
    { [plumber |-> RawAnna, pypdf2 |-> RawAnna],
      [plumber |-> RawCid, pypdf2 |-> RawCid],
      [plumber |-> Failure, pypdf2 |-> RawCid],
      [plumber |-> RawSymbols, pypdf2 |-> RawSymbols],
      [plumber |-> <<>>, pypdf2 |-> <<>>],
      [plumber |-> Failure, pypdf2 |-> Failure] }

(***************************************************************************)
(* The methods of KnowledgeGraphGenerator as functions of the fields they  *)
(* read: the new value of the field they assign and what they return.      *)
(***************************************************************************)
\* the text the two try blocks end up with, or Failure when both raise
extracted(f) == IF f.plumber # Failure THEN f.plumber ELSE f.pypdf2

\* the inner except catches every Exception and returns None before
\* "self.text = text"
extract_text_from_pdf_result(t, f) ==
    IF extracted(f) = Failure
    THEN [text |-> t, ret |-> NoneVal, raised |-> FALSE]
    ELSE [text |-> extracted(f), ret |-> extracted(f), raised |-> FALSE]

preprocess_text_result(t) ==
    IF t = <<>> THEN [text |-> t, ret |-> <<>>]
    ELSE [text |-> Normalize(t), ret |-> Normalize(t)]

\* a variant: without the early return on an empty text
extract_entities_unguarded(ents, t, d) ==
    [entities |-> KeptEntities(d), ret |-> KeptEntities(d), nlp_used |-> TRUE]

extract_entities_result(ents, t, d) ==
    IF t = <<>> THEN [entities |-> ents, ret |-> <<>>, nlp_used |-> FALSE]
    ELSE [entities |-> KeptEntities(d), ret |-> KeptEntities(d),
          nlp_used |-> TRUE]

extract_keywords_result(kws, t, k) ==
    IF t = <<>> THEN [keywords |-> kws, ret |-> <<>>]
    ELSE [keywords |-> ExtractKeywords(word_tokenize_lower(t), k),
          ret |-> ExtractKeywords(word_tokenize_lower(t), k)]

extract_relationships_result(rels, t, d) ==
    IF t = <<>>
    THEN [relationships |-> rels, ret |-> <<>>, nlp_used |-> FALSE]
    ELSE [relationships |-> ExtractRels(d), ret |-> ExtractRels(d),
          nlp_used |-> TRUE]

HasSafeIdAttr(G) ==
    \E n \in DOMAIN G.attr : "__safe_id__" \in DOMAIN G.attr[n]

\* a variant: the graph held so far is built upon
build_graph_on_held(G, ents, rels) == BuildFrom(G, ents, rels)

\* G = nx.Graph(): the graph held so far is not read
build_graph_result(G, ents, rels) == BuildFrom(EmptyGraph, ents, rels)

Config == <<"Config">>

\* the outcomes of make_agraph_payload on graph G, one per choice of the
\* hash values: the graph with its __safe_id__ attributes and the payload
make_agraph_payload_results(G) ==
    IF G.nodes = <<>> THEN {[graph |-> G, ret |-> EmptyPayload]}
    ELSE { [graph |-> with_safe_ids(G, ids),
            ret |-> [nodes |-> payload_nodes(G, ids),
                     edges |-> payload_edges(with_safe_ids(G, ids),
                                             graph_edges(G)),
                     cfg |-> Config]]
           : ids \in assign_ids(G.nodes, {}, <<>>, EmptyDict) }

RECURSIVE sum_len(_)
sum_len(words) ==
    IF words = <<>> THEN 0 ELSE Len(Head(words)) + sum_len(Tail(words))

\* the word and character statistics; the sentence count, the sentiment
\* and the subjectivity are figures of external scorers and not modelled
analyze_text_result(t) ==
    IF t = <<>> THEN EmptyDict
    ELSE [word_count |-> Len(split(t)),
          char_count |-> Len(t),
          word_length_sum |-> sum_len(split(t))]

(***************************************************************************)
(* KnowledgeGraphGenerator: __init__ and one action per method.            *)
(***************************************************************************)
Constructed(t, ents, rels, d) ==
    /\ text = t
    /\ entities = ents
    /\ keywords = <<>>
    /\ relationships = rels
    /\ graph = EmptyGraph
    /\ graph_ready = FALSE
    /\ doc = d
    /\ op = "__init__"
    /\ ret = NoneVal
    /\ nlp_used = FALSE
    /\ raised = FALSE
    /\ held = [rendered |-> FALSE, dropped |-> FALSE]

Init == Constructed(<<>>, <<>>, <<>>, nlp(<<>>))

extract_text_from_pdf(f) ==
    LET r == extract_text_from_pdf_result(text, f)
    IN  /\ op' = "extract_text_from_pdf"
        /\ text' = r.text
        /\ doc' = nlp(r.text)
        /\ ret' = r.ret
        /\ raised' = r.raised
        /\ nlp_used' = FALSE
        /\ UNCHANGED <<entities, keywords, relationships, graph, graph_ready,
                       held>>

preprocess_text ==
    LET r == preprocess_text_result(text)
    IN  /\ op' = "preprocess_text"
        /\ text' = r.text
        /\ doc' = nlp(r.text)
        /\ ret' = r.ret
        /\ nlp_used' = FALSE
        /\ raised' = FALSE
        /\ UNCHANGED <<entities, keywords, relationships, graph, graph_ready,
                       held>>

extract_entities ==
    LET r == extract_entities_result(entities, text, doc)
    IN  /\ op' = "extract_entities"
        /\ entities' = r.entities
        /\ ret' = r.ret
        /\ nlp_used' = r.nlp_used
        /\ raised' = FALSE
        /\ UNCHANGED <<text, doc, keywords, relationships, graph, graph_ready,
                       held>>

extract_keywords_top(top_k) ==
    LET r == extract_keywords_result(keywords, text, top_k)
    IN  /\ op' = "extract_keywords"
        /\ keywords' = r.keywords
        /\ ret' = r.ret
        /\ nlp_used' = FALSE
        /\ raised' = FALSE
        /\ UNCHANGED <<text, doc, entities, relationships, graph, graph_ready,
                       held>>

\* the call without an argument: top_k=50
extract_keywords == extract_keywords_top(TopK)

extract_relationships ==
    LET r == extract_relationships_result(relationships, text, doc)
    IN  /\ op' = "extract_relationships"
        /\ relationships' = r.relationships
        /\ ret' = r.ret
        /\ nlp_used' = r.nlp_used
        /\ raised' = FALSE
        /\ UNCHANGED <<text, doc, entities, keywords, graph, graph_ready,
                       held>>

build_graph ==
    /\ op' = "build_graph"
    /\ graph' = build_graph_result(graph, entities, relationships)
    /\ ret' = graph'
    /\ held' = [rendered |-> HasSafeIdAttr(graph),
                dropped |-> \E n \in Range(graph.nodes) : ~has_node(graph', n)]
    /\ nlp_used' = FALSE
    /\ raised' = FALSE
    /\ UNCHANGED <<text, doc, entities, keywords, relationships, graph_ready>>

make_agraph_payload ==
    \E r \in make_agraph_payload_results(graph) :
        /\ op' = "make_agraph_payload"
        /\ graph' = r.graph
        /\ ret' = r.ret
        /\ nlp_used' = FALSE
        /\ raised' = FALSE
        /\ UNCHANGED <<text, doc, entities, keywords, relationships,
                       graph_ready, held>>

analyze_text ==
    /\ op' = "analyze_text"
    /\ ret' = analyze_text_result(text)
    /\ nlp_used' = FALSE
    /\ raised' = FALSE
    /\ UNCHANGED <<text, doc, entities, keywords, relationships, graph,
                   graph_ready, held>>

\* the methods of one generator, called in any order
Next ==
    \/ \E f \in Files : extract_text_from_pdf(f)
    \/ preprocess_text
    \/ extract_entities
    \/ extract_keywords
    \/ extract_relationships
    \/ build_graph
    \/ make_agraph_payload
    \/ analyze_text

Spec == Init /\ [][Next]_vars

(***************************************************************************)
(* The Streamlit session: one generator in st.session_state and the        *)
(* graph_ready flag; every interaction runs the script of the selected     *)
(* page once.                                                              *)
(***************************************************************************)
\* Python truthiness of a text or None
truthy(r) == r # NoneVal /\ r # <<>>

\* st.stop() under st.info(...): the page shows nothing of the pipeline
Stopped == <<"st.stop">>

\* "text = kg.extract_text_from_pdf(buf)" and "if text: kg.preprocess_text()"
upload_text(t, f) ==
    LET r == extract_text_from_pdf_result(t, f)
    IN  IF truthy(r.ret) THEN preprocess_text_result(r.text).text ELSE r.text

\* nx.node_link_data(G)
node_link_data(G) ==
    [nodes |-> [i \in DOMAIN G.nodes |->
                    dict_update(G.attr[G.nodes[i]], [id |-> G.nodes[i]])],
     links |-> [i \in DOMAIN graph_edges(G) |->
                    LET e == graph_edges(G)[i]
                    IN  dict_update(G.edge[{e[1], e[2]}],
                                    [source |-> e[1], target |-> e[2]])]]

\* the Upload & Process page with file f in the uploader, the button not
\* clicked
UploadAndProcess(f) ==
    /\ op' = "Upload & Process"
    /\ text' = upload_text(text, f)
    /\ doc' = nlp(text')
    /\ ret' = extract_text_from_pdf_result(text, f).ret
    /\ nlp_used' = FALSE
    /\ raised' = FALSE
    /\ UNCHANGED <<entities, keywords, relationships, graph, graph_ready,
                   held>>

\* the same page run by a click on "Generate Knowledge Graph": the button
\* is inside "if text:", and the run extracts and preprocesses again
GenerateKnowledgeGraph(f) ==
    /\ truthy(extract_text_from_pdf_result(text, f).ret)
    /\ op' = "Generate Knowledge Graph"
    /\ text' = upload_text(text, f)
    /\ doc' = nlp(text')
    /\ entities' = extract_entities_result(entities, text', doc').entities
    /\ keywords' = extract_keywords_result(keywords, text', TopK).keywords
    /\ relationships' =
           extract_relationships_result(relationships, text', doc').relationships
    /\ graph' = build_graph_result(graph, entities', relationships')
    /\ held' = [rendered |-> HasSafeIdAttr(graph),
                dropped |-> \E n \in Range(graph.nodes) : ~has_node(graph', n)]
    /\ graph_ready' = TRUE
    /\ ret' = graph'
    /\ nlp_used' = (text' # <<>>)
    /\ raised' = FALSE

TextAnalysisPage ==
    /\ op' = "Text Analysis"
    /\ ret' = IF text = <<>> THEN Stopped ELSE analyze_text_result(text)
    /\ nlp_used' = FALSE
    /\ raised' = FALSE
    /\ UNCHANGED <<text, doc, entities, keywords, relationships, graph,
                   graph_ready, held>>

\* the pages behind "if not graph_ready or number_of_nodes() == 0: st.stop()"
Gated == ~graph_ready \/ graph.nodes = <<>>

KnowledgeGraphPage ==
    /\ op' = "Knowledge Graph"
    /\ IF Gated
       THEN /\ ret' = Stopped
            /\ UNCHANGED graph
       ELSE \E r \in make_agraph_payload_results(graph) :
                /\ graph' = r.graph
                /\ ret' = r.ret
    /\ nlp_used' = FALSE
    /\ raised' = FALSE
    /\ UNCHANGED <<text, doc, entities, keywords, relationships, graph_ready,
                   held>>

VisualizationsPage ==
    /\ op' = "Visualizations"
    /\ ret' = IF Gated THEN Stopped
              ELSE [labels |-> [i \in DOMAIN entities |-> entities[i].label],
                    keywords |-> take(keywords, TopK)]
    /\ nlp_used' = FALSE
    /\ raised' = FALSE
    /\ UNCHANGED <<text, doc, entities, keywords, relationships, graph,
                   graph_ready, held>>

ExportPage ==
    /\ op' = "Export"
    /\ ret' = IF Gated THEN Stopped
              ELSE [entities |-> entities, relationships |-> relationships,
                    graph |-> node_link_data(graph)]
    /\ nlp_used' = FALSE
    /\ raised' = FALSE
    /\ UNCHANGED <<text, doc, entities, keywords, relationships, graph,
                   graph_ready, held>>

NextSession ==
    \/ \E f \in Files : UploadAndProcess(f)
    \/ \E f \in Files : GenerateKnowledgeGraph(f)
    \/ TextAnalysisPage
    \/ KnowledgeGraphPage
    \/ VisualizationsPage
    \/ ExportPage

SpecSession == Init /\ [][NextSession]_vars

(***************************************************************************)
(* preprocess_text on every short text over one character of each kind.    *)
(***************************************************************************)
SeqsUpTo(S, n) == UNION {[1..k -> S] : k \in 0..n}

\* two whitespace characters, a word character, a kept mark, a stripped one
NormChars == {" ", "\t", "a", ".", "@"}

InitNorm ==
    \E t \in SeqsUpTo(NormChars, MaxLen) : Constructed(t, <<>>, <<>>, nlp(t))

NextNorm == preprocess_text

SpecNorm == InitNorm /\ [][NextNorm]_vars

(***************************************************************************)
(* extract_relationships (and build_graph after it) on every short         *)
(* dependency parse: tokens named a or b that are subjects, direct or      *)
(* prepositional objects or verbs, each attached to the first or the       *)
(* second token.                                                           *)
(***************************************************************************)
TokenShapes ==
    { [text |-> w, dep |-> d, head |-> h,
       pos |-> IF d = "ROOT" THEN "VERB" ELSE "NOUN"]
      : w \in {<<"a">>, <<"b">>}, d \in {"nsubj", "dobj", "pobj", "ROOT"},
        h \in {1, 2} }
    \ ( {[text |-> <<"b">>, dep |-> "ROOT", head |-> h, pos |-> "VERB"]
            : h \in {1, 2}}
        \cup {[text |-> w, dep |-> "pobj", head |-> 2, pos |-> "NOUN"]
            : w \in {<<"a">>, <<"b">>}} )

\* every head is a token of the parse
Parses ==
    {p \in SeqsUpTo(TokenShapes, MaxTokens) :
        \A i \in DOMAIN p : p[i].head \in DOMAIN p}

\* the text that was parsed is not modelled: any text that is not empty
SomeText == <<"a">>

InitRel ==
    \E p \in Parses :
        Constructed(SomeText, <<>>, <<>>, [ents |-> <<>>, tokens |-> p])

NextRel ==
    \/ extract_relationships
    \/ build_graph

SpecRel == InitRel /\ [][NextRel]_vars

(***************************************************************************)
(* build_graph and make_agraph_payload on short entity and triple          *)
(* sequences: a surface text tagged with two categories, a pair related    *)
(* twice in either direction, a triple from a text to itself, and a text   *)
(* that is no entity.                                                      *)
(***************************************************************************)
Alice == <<"A", "l", "i", "c", "e">>

Bob == <<"B", "o", "b">>

Acme == <<"A", "c", "m", "e">>

Zed == <<"Z", "e", "d">>

Met == <<"m", "e", "t">>

Works == <<"w", "o", "r", "k", "s">>

entity(t, l) == [text |-> t, label |-> l, start |-> 0, end |-> Len(t)]

BuildEnts ==
    { entity(Alice, "PERSON"), entity(Alice, "ORG"), entity(Bob, "PERSON"),
      entity(Acme, "ORG") }

BuildRels ==
    { triple(Alice, Met, Bob), triple(Bob, Works, Alice),
      triple(Alice, Works, Acme), triple(Alice, Met, Alice),
      triple(Bob, Met, Zed) }

InitBuild ==
    \E ents \in SeqsUpTo(BuildEnts, MaxEnts) :
        \E rels \in SeqsUpTo(BuildRels, MaxRels) :
            Constructed(SomeText, ents, rels, nlp(SomeText))

NextGraph ==
    \/ build_graph
    \/ make_agraph_payload

SpecBuild == InitBuild /\ [][NextGraph]_vars

(***************************************************************************)
(* The same two methods on graphs whose node keys collide once sanitised:  *)
(* keys that differ in surrounding whitespace only, keys of whitespace     *)
(* only, keys that share their first MaxIdLen characters, and a key that   *)
(* reads like a disambiguated identifier.                                  *)
(***************************************************************************)
KeyA == <<"A">>

KeySpaceA == <<" ", "A">>

KeyA7 == <<"A", "_", "7">>

KeySpace == <<" ">>

KeyTab == <<"\t">>

LongPrefix == [i \in 1..MaxIdLen |-> "x"]

KeyLongY == LongPrefix \o <<"y">>

KeyLongZ == LongPrefix \o <<"z">>

RenderEnts ==
    { entity(k, "PERSON")
      : k \in {KeyA, KeySpaceA, KeyA7, KeySpace, KeyTab, KeyLongY, KeyLongZ} }

RenderRels ==
    { triple(KeyA, Met, KeySpaceA), triple(KeyA7, Met, KeySpaceA),
      triple(KeyLongY, Met, KeyLongZ), triple(KeyA, Met, KeyA) }

InitRender ==
    \E ents \in SeqsUpTo(RenderEnts, MaxRenderEnts) :
        \E rels \in SeqsUpTo(RenderRels, MaxRenderRels) :
            Constructed(SomeText, ents, rels, nlp(SomeText))

SpecRender == InitRender /\ [][NextGraph]_vars

(***************************************************************************)
(* extract_keywords with every small top_k on every short text made of     *)
(* words that qualify as keywords (two of them equal once lower-cased), a  *)
(* stopword, a word that is too short and a word that is not alphanumeric. *)
(***************************************************************************)
MaxKwTokens == 4

MaxTopK == 2

KwWords ==
    { <<"a", "b", "c", "d">>, <<"A", "B", "c", "d">>, <<"d", "c", "b", "a">>,
      <<"w", "i", "t", "h">>, <<"a", "b", "c">>, <<"a", "_", "c", "d">> }

InitKw ==
    \E ws \in SeqsUpTo(KwWords, MaxKwTokens) :
        Constructed(join(ws), <<>>, <<>>, nlp(join(ws)))

NextKw == \E k \in 0..MaxTopK : extract_keywords_top(k)

SpecKw == InitKw /\ [][NextKw]_vars

(***************************************************************************)
(* build_graph and make_agraph_payload on entities of every category: the  *)
(* six of the color table, one the table does not know, the table's own    *)
(* key "default", and nodes that only a relationship names.                *)
(***************************************************************************)
MaxColorEnts == 2

MaxColorRels == 1

Categories ==
    {"PERSON", "ORG", "GPE", "PRODUCT", "EVENT", "WORK_OF_ART", "DATE",
     "default"}

ColorEnts == {entity(t, l) : t \in {Alice, Bob}, l \in Categories}

ColorRels == {triple(Alice, Met, Zed), triple(Zed, Works, Bob)}

InitColor ==
    \E ents \in SeqsUpTo(ColorEnts, MaxColorEnts) :
        \E rels \in SeqsUpTo(ColorRels, MaxColorRels) :
            Constructed(SomeText, ents, rels, nlp(SomeText))

SpecColor == InitColor /\ [][NextGraph]_vars

(***************************************************************************)
(* What the claims speak of.                                               *)
(***************************************************************************)
\* the keys a graph of entities ents and triples rels must have as nodes
NodeKeys(ents, rels) ==
    {ents[i].text : i \in DOMAIN ents}
    \cup {rels[i].subject : i \in DOMAIN rels}
    \cup {rels[i].object : i \in DOMAIN rels}

\* the unordered pairs the triples relate
Pair(r) == {r.subject, r.object}

EdgePairs(rels) == {Pair(rels[i]) : i \in DOMAIN rels}

\* the index of the last triple of rels that relates pair p
LastOf(rels, p) ==
    CHOOSE i \in DOMAIN rels :
        /\ Pair(rels[i]) = p
        /\ \A j \in DOMAIN rels : Pair(rels[j]) = p => j <= i

\* what each method returns on an empty text
EmptyResult ==
    [preprocess_text |-> <<>>, extract_entities |-> <<>>,
     extract_keywords |-> <<>>, extract_relationships |-> <<>>,
     analyze_text |-> EmptyDict]

(***************************************************************************)
(* Claims checked under Spec: the methods of one generator in any order.   *)
(***************************************************************************)
\* C5: whatever graph the generator held (built from other results,
\* carrying __safe_id__ attributes), the graph after build_graph is the one
\* a first build from the same entities and relationships gives: the same
\* nodes in the same order, attributes, edges and labels, and no
\* __safe_id__ attribute.
C5_BuildStartsEmpty ==
    op = "build_graph" =>
        /\ graph = BuildFrom(EmptyGraph, entities, relationships)
        /\ Range(graph.nodes) = NodeKeys(entities, relationships)
        /\ DOMAIN graph.edge = EdgePairs(relationships)
        /\ ~HasSafeIdAttr(graph)

\* a build over a held graph that had been rendered and had other nodes
C5_Witness ==
    /\ op = "build_graph"
    /\ held.rendered
    /\ held.dropped
    /\ graph.nodes # <<>>

\* C7: after a failed extraction (None returned, nothing raised) the
\* generator holds no text.
C7_FailureLeavesNoText ==
    (op = "extract_text_from_pdf" /\ ret = NoneVal) =>
        (~raised /\ text = <<>>)

EntitiesOf(t) == KeptEntities(nlp(t))

KeywordsOf(t) == ExtractKeywords(word_tokenize_lower(t), TopK)

RelationshipsOf(t) == ExtractRels(nlp(t))

\* C6: the session's entities, keywords and relationships are those of the
\* current text or none, and while graph_ready unlocks the pages the graph
\* is the one of the current text: nothing is left of a document processed
\* before.
C6_StateReplaced ==
    (op = "Upload & Process" /\ truthy(ret)) =>
        /\ entities \in {<<>>, EntitiesOf(text)}
        /\ keywords \in {<<>>, KeywordsOf(text)}
        /\ relationships \in {<<>>, RelationshipsOf(text)}
        /\ ~Gated =>
               /\ graph.nodes = BuildFrom(EmptyGraph, EntitiesOf(text),
                                          RelationshipsOf(text)).nodes
               /\ graph.edge = BuildFrom(EmptyGraph, EntitiesOf(text),
                                         RelationshipsOf(text)).edge

(***************************************************************************)
(* Claims checked under SpecNorm.                                          *)
(***************************************************************************)
\* no leading, trailing or repeated space, no whitespace but the space and
\* no stripped character
Tidy(t) ==
    /\ \A i \in DOMAIN t : t[i] \in WordChars \cup KeptPunct \cup {" "}
    /\ t # <<>> => (t[1] # " " /\ t[Len(t)] # " ")
    /\ \A i \in 1..(Len(t) - 1) : ~(t[i] = " " /\ t[i + 1] = " ")

\* C9: the text preprocess_text leaves is tidy, and preprocess_text called
\* on it again returns it and leaves it as it is.
C9_Idempotent ==
    /\ [](op = "preprocess_text" => (Tidy(text) /\ ret = text))
    /\ [][(op = "preprocess_text" /\ op' = "preprocess_text")
              => (text' = text /\ ret' = ret)]_vars

\* a text of two words left by preprocess_text
C9_Witness ==
    /\ op = "preprocess_text"
    /\ Len(split(text)) = 2
    /\ Len(text) = 3

(***************************************************************************)
(* Claims checked under SpecRel.                                           *)
(***************************************************************************)
\* the pairs (subject token, object token) of parse p: a nominal subject
\* whose head is a verb and a direct or prepositional object among that
\* verb's children
SubjectObjectPairs(p) ==
    { <<i, j>> \in (DOMAIN p) \X (DOMAIN p) :
        /\ p[i].dep = "nsubj"
        /\ p[p[i].head].pos = "VERB"
        /\ j # p[i].head
        /\ p[j].head = p[i].head
        /\ p[j].dep \in {"dobj", "pobj"} }

TripleOf(p, ij) ==
    triple(p[ij[1]].text, p[p[ij[1]].head].text, p[ij[2]].text)

\* C10: the triples extract_relationships returns are, one for one and
\* duplicates included, the subject-object pairs of the parse whose two
\* texts differ; no triple has its subject as its object, and the graph
\* built from the triples has no edge from a node to itself.
C10_TriplesOfParse ==
    /\ op = "extract_relationships" =>
          /\ ret = relationships
          /\ \A i \in DOMAIN relationships :
                 relationships[i].subject # relationships[i].object
          /\ Len(relationships) =
                 Cardinality({ij \in SubjectObjectPairs(doc.tokens) :
                     doc.tokens[ij[1]].text # doc.tokens[ij[2]].text})
          /\ \A ij \in SubjectObjectPairs(doc.tokens) :
                 doc.tokens[ij[1]].text # doc.tokens[ij[2]].text =>
                     Cardinality({k \in DOMAIN relationships :
                         relationships[k] = TripleOf(doc.tokens, ij)})
                     = Cardinality({xy \in SubjectObjectPairs(doc.tokens) :
                         TripleOf(doc.tokens, xy) = TripleOf(doc.tokens, ij)})
    /\ op = "build_graph" => \A e \in DOMAIN graph.edge : Cardinality(e) = 2

\* a parse with two subject-object pairs that give the same triple: both
\* are kept
C10_Witness ==
    /\ op = "extract_relationships"
    /\ Len(relationships) = 2
    /\ relationships[1] = relationships[2]

(***************************************************************************)
(* Claims checked under SpecBuild.                                         *)
(***************************************************************************)
\* the index of the first / last entity of ents with surface text t
FirstEntity(ents, t) ==
    CHOOSE i \in DOMAIN ents :
        ents[i].text = t /\ \A j \in DOMAIN ents : ents[j].text = t => i <= j

LastEntity(ents, t) ==
    CHOOSE i \in DOMAIN ents :
        ents[i].text = t /\ \A j \in DOMAIN ents : ents[j].text = t => j <= i

EntityTexts(ents) == {ents[i].text : i \in DOMAIN ents}

AliceBobAcme ==
    /\ entities = <<entity(Alice, "PERSON"), entity(Bob, "PERSON"),
                    entity(Acme, "ORG")>>
    /\ relationships = <<triple(Alice, Met, Bob), triple(Alice, Works, Acme)>>

C4_FirstCategoryWins ==
    op = "build_graph" =>
        \A t \in EntityTexts(entities) :
            graph.attr[t].label = entities[FirstEntity(entities, t)].label

\* C4 as amended: the node of an entity text carries the category of the
\* last entity of that text.
C4_LastCategoryWins ==
    op = "build_graph" =>
        \A t \in EntityTexts(entities) :
            graph.attr[t].label = entities[LastEntity(entities, t)].label

\* one text tagged PERSON, then ORG: the node is an ORG
C4_Witness ==
    /\ op = "build_graph"
    /\ entities = <<entity(Alice, "PERSON"), entity(Alice, "ORG")>>
    /\ graph.attr[Alice].label = "ORG"

(***************************************************************************)
(* Claims checked under SpecRender.                                        *)
(***************************************************************************)
PayloadIds == {ret.nodes[i].id : i \in DOMAIN ret.nodes}

\* the identifier make_agraph_payload left on node n
SafeIdOf(n) == graph.attr[n]["__safe_id__"]

\* C1: the identifiers of the payload's nodes are pairwise distinct: as
\* many identifiers as the graph has nodes.
C1_IdsDistinct ==
    op = "make_agraph_payload" =>
        /\ Len(ret.nodes) = Len(graph.nodes)
        /\ Cardinality(PayloadIds) = Len(graph.nodes)

\* C2: every edge of the payload joins two different identifiers, both of
\* nodes of the payload, and the edges of the payload are exactly the
\* edges of the graph whose two ends got different identifiers, in the
\* graph's order.
C2_EdgesSound ==
    op = "make_agraph_payload" =>
        /\ \A i \in DOMAIN ret.edges :
               /\ ret.edges[i].source # ret.edges[i].target
               /\ ret.edges[i].source \in PayloadIds
               /\ ret.edges[i].target \in PayloadIds
        /\ LET kept == SelectSeq(graph_edges(graph),
                                 LAMBDA e : SafeIdOf(e[1]) # SafeIdOf(e[2]))
           IN  /\ Len(ret.edges) = Len(kept)
               /\ \A i \in DOMAIN kept :
                      /\ ret.edges[i].source = SafeIdOf(kept[i][1])
                      /\ ret.edges[i].target = SafeIdOf(kept[i][2])

\* an edge between two nodes that got one identifier: it is dropped
C2_Witness ==
    /\ op = "make_agraph_payload"
    /\ {KeyA7, KeySpaceA} \in DOMAIN graph.edge
    /\ SafeIdOf(KeyA7) = SafeIdOf(KeySpaceA)
    /\ ret.edges = <<>>

(***************************************************************************)
(* Claims checked under SpecKw.                                            *)
(***************************************************************************)
Qualifies(w) == isalnum(w) /\ w \notin Stopwords /\ Len(w) > 3

\* how often w occurs among the tokens, and where it occurs first
Frequency(tokens, w) == Cardinality({i \in DOMAIN tokens : tokens[i] = w})

FirstAt(tokens, w) ==
    CHOOSE i \in DOMAIN tokens :
        tokens[i] = w /\ \A j \in 1..(i - 1) : tokens[j] # w

TopKeywords(tokens, k, out) ==
    /\ Len(out) <= k
    /\ \A i, j \in DOMAIN out : i # j => out[i] # out[j]
    /\ \A i \in DOMAIN out : out[i] \in Range(tokens) /\ Qualifies(out[i])
    /\ \A i, j \in DOMAIN out :
          i < j =>
            \/ Frequency(tokens, out[i]) > Frequency(tokens, out[j])
            \/ /\ Frequency(tokens, out[i]) = Frequency(tokens, out[j])
               /\ FirstAt(tokens, out[i]) < FirstAt(tokens, out[j])
    /\ \A w \in Range(tokens) \ Range(out) :
          Qualifies(w) =>
            \A i \in DOMAIN out :
                Frequency(tokens, w) <= Frequency(tokens, out[i])

\* C11: for every token sequence and every top_k, extract_keywords returns
\* (and stores) at most top_k pairwise distinct tokens, each alphanumeric,
\* no stopword and longer than 3 characters, by non-increasing frequency
\* with equally frequent tokens in order of first occurrence, and no
\* qualifying token left out is more frequent than a returned one.
C11_TopKeywords ==
    [][\A k \in 0..MaxTopK :
          (extract_keywords_top(k) /\ text # <<>>) =>
              /\ TopKeywords(word_tokenize_lower(text), k, ret')
              /\ keywords' = ret']_vars

\* a token met three times was returned before one met once that came
\* first in the text
C11_Witness ==
    /\ op = "extract_keywords"
    /\ Len(ret) = 2
    /\ LET tokens == word_tokenize_lower(text)
       IN  /\ Frequency(tokens, ret[1]) = 3
           /\ Frequency(tokens, ret[2]) = 1
           /\ FirstAt(tokens, ret[2]) < FirstAt(tokens, ret[1])

(***************************************************************************)
(* Claims checked under SpecColor.                                         *)
(***************************************************************************)
ColorTable ==
    [PERSON |-> "#ff7f0e", ORG |-> "#2ca02c", GPE |-> "#d62728",
     PRODUCT |-> "#9467bd", EVENT |-> "#8c564b", WORK_OF_ART |-> "#e377c2"]

\* the color the table gives to a node with attributes a
ColorOfNode(a) ==
    IF "label" \in DOMAIN a /\ a["label"] \in DOMAIN ColorTable
    THEN ColorTable[a["label"]]
    ELSE "#1f77b4"

\* C12: node color is a total function of the category through a fixed
\* table: the six known categories map to their fixed colors, every other
\* category and a node without a category (named by a relationship only)
\* map to the default color #1f77b4, and the lookup never fails.
C12_ColorByCategory ==
    (op = "make_agraph_payload" /\ graph.nodes # <<>>) =>
        /\ ~raised
        /\ Len(ret.nodes) = Len(graph.nodes)
        /\ \A i \in DOMAIN ret.nodes :
              ret.nodes[i].color = ColorOfNode(graph.attr[graph.nodes[i]])

\* one payload with a node of a known category, a node of a category the
\* table does not know and a node without a category
C12_Witness ==
    /\ op = "make_agraph_payload"
    /\ ~raised
    /\ \E i, j, k \in DOMAIN ret.nodes :
          /\ dict_get(graph.attr[graph.nodes[i]], "label", "") = "PERSON"
          /\ ret.nodes[i].color = "#ff7f0e"
          /\ dict_get(graph.attr[graph.nodes[j]], "label", "") = "DATE"
          /\ ret.nodes[j].color = "#1f77b4"
          /\ "label" \notin DOMAIN graph.attr[graph.nodes[k]]
          /\ ret.nodes[k].color = "#1f77b4"

(***************************************************************************)
(* Claims checked under SpecBuild and Spec.                                *)
(***************************************************************************)
\* C13: make_agraph_payload does not mutate the graph: its node set, node
\* attributes, edge set and edge attributes are the same after the call as
\* before it, so that a later export holds exactly the attributes present
\* at build time.
C13_GraphNotMutated ==
    [][make_agraph_payload =>
          /\ graph'.nodes = graph.nodes
          /\ graph'.attr = graph.attr
          /\ graph'.adj = graph.adj
          /\ graph'.edge = graph.edge]_vars

\* C14: after every call of extract_entities, extract_keywords or
\* extract_relationships, for every current text including the empty one,
\* the stored entities / keywords / relationships equal the value the call
\* returned, so that a build_graph after them uses results for the current
\* text only.
C14_StoredIsReturned ==
    /\ (op = "extract_entities") => (entities = ret)
    /\ (op = "extract_keywords") => (keywords = ret)
    /\ (op = "extract_relationships") => (relationships = ret)

====
